---- MODULE Spec2Model ----
(***************************************************************************)
(* A model of pyvalidator: the Field descriptors of core/validators.py and *)
(* the Form cleaning pipeline and metaclass of core/forms.py.              *)
(*                                                                         *)
(* Python values are records [t, n, s]: t is the Python type, n the        *)
(* number an int / float / datetime carries, s the characters of a str.   *)
(* A float carries its value in halves (n = 3 is 1.5), a datetime carries  *)
(* its year.  A dict is the sequence of its [k, v] items in insertion      *)
(* order.                                                                  *)
(***************************************************************************)
EXTENDS Integers, Sequences, FiniteSets, TLC

VARIABLES classes, fields, forms, ctl, hist

vars == <<classes, fields, forms, ctl, hist>>

-----------------------------------------------------------------------------
(* Python values *)

NoneV == [t |-> "none", n |-> 0, s |-> <<>>]

IntV(k) == [t |-> "int", n |-> k, s |-> <<>>]

FloatV(h) == [t |-> "float", n |-> h, s |-> <<>>]

StrV(chars) == [t |-> "str", n |-> 0, s |-> chars]

DateTimeV(year) == [t |-> "datetime", n |-> year, s |-> <<>>]

FieldRef(fid) == [t |-> "field", n |-> 0, s |-> <<fid>>]

Digits == <<"0", "1", "2", "3", "4", "5", "6", "7", "8", "9">>

IsDigit(c) == \E i \in 1..10 : Digits[i] = c

DigitVal(c) == (CHOOSE i \in 1..10 : Digits[i] = c) - 1

AllDigits(chars) == Len(chars) > 0 /\ \A i \in 1..Len(chars) : IsDigit(chars[i])

RECURSIVE ParseNat(_)
ParseNat(chars) ==
    IF Len(chars) = 0 THEN 0
    ELSE ParseNat(SubSeq(chars, 1, Len(chars) - 1)) * 10 + DigitVal(chars[Len(chars)])

RECURSIVE NatStr(_)
NatStr(k) ==
    IF k < 10 THEN <<Digits[k + 1]>>
    ELSE NatStr(k \div 10) \o <<Digits[(k % 10) + 1]>>

IntStr(k) == IF k < 0 THEN <<"-">> \o NatStr(0 - k) ELSE NatStr(k)

(* the outcome of a call: a value, or the exception it raised *)
Ok(v) == [ok |-> TRUE, v |-> v, type |-> "", msg |-> "", arg |-> ""]

RaiseWith(type, msg, arg) == [ok |-> FALSE, v |-> NoneV, type |-> type, msg |-> msg, arg |-> arg]

Raise(type, msg) == RaiseWith(type, msg, "")

Exc(r) == [type |-> r.type, msg |-> r.msg, arg |-> r.arg]

NoExc == [type |-> "", msg |-> "", arg |-> ""]

(* the type constructors int(), float(), str() and the date parser *)
IntOf(v) ==
    CASE v.t = "int" -> Ok(v)
      [] v.t = "float" -> Ok(IntV(IF v.n >= 0 THEN v.n \div 2 ELSE 0 - ((0 - v.n) \div 2)))
      [] v.t = "str" ->
            IF AllDigits(v.s) THEN Ok(IntV(ParseNat(v.s)))
            ELSE IF Len(v.s) > 1 /\ v.s[1] = "-" /\ AllDigits(Tail(v.s))
                 THEN Ok(IntV(0 - ParseNat(Tail(v.s))))
                 ELSE Raise("ValueError", "invalid literal for int")
      [] OTHER -> Raise("TypeError", "int() argument")

FloatOf(v) ==
    CASE v.t = "float" -> Ok(v)
      [] v.t = "int" -> Ok(FloatV(2 * v.n))
      [] v.t = "str" ->
            IF AllDigits(v.s) THEN Ok(FloatV(2 * ParseNat(v.s)))
            ELSE IF Len(v.s) > 2 /\ AllDigits(SubSeq(v.s, 1, Len(v.s) - 2))
                    /\ v.s[Len(v.s) - 1] = "." /\ v.s[Len(v.s)] \in {"0", "5"}
                 THEN Ok(FloatV(2 * ParseNat(SubSeq(v.s, 1, Len(v.s) - 2))
                                + (IF v.s[Len(v.s)] = "5" THEN 1 ELSE 0)))
                 ELSE Raise("ValueError", "could not convert string to float")
      [] OTHER -> Raise("TypeError", "float() argument")

StrOf(v) ==
    CASE v.t = "str" -> Ok(v)
      [] v.t = "none" -> Ok(StrV(<<"N", "o", "n", "e">>))
      [] v.t = "int" -> Ok(StrV(IntStr(v.n)))
      [] v.t = "float" ->
            Ok(StrV((IF v.n < 0 THEN <<"-">> ELSE <<>>)
                    \o NatStr((IF v.n < 0 THEN 0 - v.n ELSE v.n) \div 2)
                    \o <<".">> \o (IF v.n % 2 = 1 THEN <<"5">> ELSE <<"0">>)))
      [] v.t = "datetime" -> Ok(StrV(NatStr(v.n) \o <<"-", "0", "1", "-", "0", "1">>))
      [] OTHER -> Ok(StrV(<<"<", ">">>))

(* dateutil's parse, reduced to the year: a four-digit string is a date *)
Parse(v) ==
    IF v.t = "str"
    THEN IF Len(v.s) = 4 /\ AllDigits(v.s) THEN Ok(DateTimeV(ParseNat(v.s)))
         ELSE Raise("ValueError", "Unknown string format")
    ELSE Raise("TypeError", "Parser must be a string")

CallConversion(func, v) ==
    CASE func = "int" -> IntOf(v)
      [] func = "float" -> FloatOf(v)
      [] func = "str" -> StrOf(v)
      [] func = "parse" -> Parse(v)
      [] OTHER -> Raise("TypeError", "not callable")

-----------------------------------------------------------------------------
(* Field and its subclasses *)

FieldKinds == {"IntField", "FloatField", "StringField", "DateTimeField"}

(* __field_type__ of each field class *)
FieldType(kind) ==
    CASE kind = "IntField" -> "int"
      [] kind = "FloatField" -> "float"
      [] kind = "StringField" -> "str"
      [] kind = "DateTimeField" -> "datetime"

(* the class whose _built_in_validation a field class inherits *)
FieldBase(kind) ==
    CASE kind = "IntField" -> "NumericField"
      [] kind = "FloatField" -> "Field"
      [] kind = "StringField" -> "StringField"
      [] kind = "DateTimeField" -> "BaseDateField"

IsInstance(v, kind) == v.t = FieldType(kind)

(* keyword arguments of a field declaration; an argument left out is None *)
NoArgs ==
    [default |-> NoneV, nullable |-> FALSE, custom_validators |-> <<>>,
     force_conversion |-> FALSE, min_value |-> NoneV, max_value |-> NoneV,
     min_length |-> NoneV, max_length |-> NoneV, min_date |-> NoneV, max_date |-> NoneV]

(* Field.__init__ below the __init__ of the subclass, and __set_name__ *)
NewField(kind, name, args) ==
    [kind |-> kind,
     _field_name |-> name,
     _value |-> args.default,
     _nullable |-> args.nullable,
     _force_conversion |-> args.force_conversion,
     _conversion_func |-> IF FieldBase(kind) = "BaseDateField" THEN "parse" ELSE FieldType(kind),
     _custom_validators |-> args.custom_validators,
     _min_value |-> IF FieldBase(kind) = "NumericField" /\ args.min_value.t # "none"
                    THEN CallConversion(FieldType(kind), args.min_value).v ELSE NoneV,
     _max_value |-> IF FieldBase(kind) = "NumericField" /\ args.max_value.t # "none"
                    THEN CallConversion(FieldType(kind), args.max_value).v ELSE NoneV,
     _min_length |-> IF FieldBase(kind) = "StringField" THEN args.min_length ELSE NoneV,
     _max_length |-> IF FieldBase(kind) = "StringField" THEN args.max_length ELSE NoneV,
     _min_date |-> IF FieldBase(kind) = "BaseDateField" THEN args.min_date ELSE NoneV,
     _max_date |-> IF FieldBase(kind) = "BaseDateField" THEN args.max_date ELSE NoneV]

(* Field._convert_value *)
ConvertValue(f, value) ==
    IF f._force_conversion /\ ~IsInstance(value, f.kind)
    THEN LET r == CallConversion(f._conversion_func, value)
         IN IF r.ok THEN r ELSE Raise("ConversionError", r.msg)
    ELSE Ok(value)

(* NumericField._built_in_validation *)
NumericValidation(f, value) ==
    IF f._min_value.t # "none" /\ value.n < f._min_value.n
    THEN Raise("ValueError", "smaller than min value")
    ELSE IF f._max_value.t # "none" /\ value.n > f._max_value.n
         THEN Raise("ValueError", "greater than max value")
         ELSE Ok(value)

(* StringField._built_in_validation; REGEX_PATTERN of StringField is None *)
StringValidation(f, value) ==
    IF f._min_length.t # "none" /\ Len(value.s) < f._min_length.n
    THEN Raise("ValueError", "shorter than min length")
    ELSE IF f._max_length.t # "none" /\ Len(value.s) > f._max_length.n
         THEN Raise("ValueError", "longer than max length")
         ELSE Ok(value)

(* BaseDateField._built_in_validation *)
DateValidation(f, value) ==
    IF f._max_date.t # "none" /\ value.n > f._max_date.n
    THEN Raise("ValueError", "greater than max date")
    ELSE IF f._min_date.t # "none" /\ value.n < f._min_date.n
         THEN Raise("ValueError", "smaller than max date")
         ELSE Ok(value)

(* _built_in_validation as the field's class resolves it *)
BuiltInValidation(f, value) ==
    CASE FieldBase(f.kind) = "NumericField" -> NumericValidation(f, value)
      [] FieldBase(f.kind) = "StringField" -> StringValidation(f, value)
      [] FieldBase(f.kind) = "BaseDateField" -> DateValidation(f, value)
      [] OTHER -> Raise("NotImplementedError", "Initial validator is not implemented")

(* the validators a caller may pass in custom_validators *)
CallValidator(validator, value) ==
    CASE validator = "is_even" ->
            IF value.n % 2 = 0 THEN Ok(value) ELSE Raise("ValidationError", "is_even")
      [] OTHER -> Ok(value)

RECURSIVE RunValidators(_, _)
RunValidators(validators, value) ==
    IF Len(validators) = 0 THEN Ok(value)
    ELSE LET r == CallValidator(Head(validators), value)
         IN IF r.ok THEN RunValidators(Tail(validators), value) ELSE r

(* Field.validate *)
Validate(f, value) ==
    IF value.t = "none" /\ f._nullable = FALSE
    THEN Raise("ValueError", "field is not nullable")
    ELSE IF ~IsInstance(value, f.kind)
         THEN Raise("ValueError", "value is not a valid type")
         ELSE LET b == BuiltInValidation(f, value)
              IN IF b.ok THEN RunValidators(f._custom_validators, value) ELSE b

(* Field.__set__: the outcome, carrying the value to store *)
FieldSet(f, value) ==
    LET c == ConvertValue(f, value)
    IN IF c.ok
       THEN LET r == Validate(f, c.v) IN IF r.ok THEN Ok(c.v) ELSE r
       ELSE c

-----------------------------------------------------------------------------
(* dicts: the sequence of their items, in insertion order *)

DictHas(d, k) == \E i \in 1..Len(d) : d[i].k = k

DictGet(d, k) == d[CHOOSE i \in 1..Len(d) : d[i].k = k].v

DictSet(d, k, v) ==
    IF DictHas(d, k)
    THEN [i \in 1..Len(d) |-> IF d[i].k = k THEN [k |-> k, v |-> v] ELSE d[i]]
    ELSE Append(d, [k |-> k, v |-> v])

RECURSIVE DictUpdate(_, _)
DictUpdate(d, e) ==
    IF Len(e) = 0 THEN d
    ELSE DictUpdate(DictSet(d, Head(e).k, Head(e).v), Tail(e))

DictKeys(d) == {d[i].k : i \in 1..Len(d)}

Elems(q) == {q[i] : i \in 1..Len(q)}

Reversed(q) == [i \in 1..Len(q) |-> q[Len(q) + 1 - i]]

-----------------------------------------------------------------------------
(* form classes.  A class is [name, bases, mro, attrs, methods,            *)
(* declared_fields]; bases and mro hold indices into the sequence of       *)
(* classes, 0 being object.  attrs holds the Field attributes of the class *)
(* body (name -> field object id), methods its functions (name -> id).     *)

Object == 0

MroOf(cs, c) == IF c = Object THEN <<Object>> ELSE cs[c].mro

(* Python's C3 merge; <<-1>> marks an inconsistent hierarchy (TypeError) *)
RECURSIVE C3Merge(_)
C3Merge(seqs) ==
    LET live == SelectSeq(seqs, LAMBDA q : Len(q) > 0)
        good == {i \in 1..Len(live) :
                    \A j \in 1..Len(live) : Head(live[i]) \notin Elems(Tail(live[j]))}
    IN IF Len(live) = 0 THEN <<>>
       ELSE IF good = {} THEN <<-1>>
            ELSE LET i == CHOOSE m \in good : \A o \in good : m <= o
                     h == Head(live[i])
                 IN <<h>> \o C3Merge([j \in 1..Len(live) |->
                                        IF Head(live[j]) = h THEN Tail(live[j]) ELSE live[j]])

(* type.__new__: the __mro__ of class number c with these bases *)
Linearize(cs, c, bases) ==
    LET bs == IF Len(bases) = 0 THEN <<Object>> ELSE bases
    IN <<c>> \o C3Merge([j \in 1..Len(bs) |-> MroOf(cs, bs[j])] \o <<bs>>)

MroOk(mro) == -1 \notin Elems(mro)

(* hasattr(base_class, 'declared_fields') and base_class.declared_fields,  *)
(* own being attrs["declared_fields"] of the class under construction      *)
HasDeclaredFields(cs, b) == b # Object

DeclaredFieldsOf(cs, c, own, b) == IF b = c THEN own ELSE cs[b].declared_fields

RECURSIVE MergeDeclared(_, _, _, _, _)
MergeDeclared(cs, c, own, order, acc) ==
    IF Len(order) = 0 THEN acc
    ELSE MergeDeclared(cs, c, own, Tail(order),
            IF HasDeclaredFields(cs, Head(order))
            THEN DictUpdate(acc, DeclaredFieldsOf(cs, c, own, Head(order)))
            ELSE acc)

(* BaseFormMetaClass.__new__ *)
NewClass(cs, name, bases, attrs, methods) ==
    LET c == Len(cs) + 1
        mro == Linearize(cs, c, bases)
    IN [name |-> name, bases |-> bases, mro |-> mro, attrs |-> attrs, methods |-> methods,
        declared_fields |-> MergeDeclared(cs, c, attrs, Reversed(mro), <<>>)]

(* attribute lookup on the type: the first class of the __mro__ that holds it *)
ClassAttr(cs, c, name) ==
    LET at == CHOOSE i \in 1..Len(cs[c].mro) :
                /\ cs[c].mro[i] # Object
                /\ DictHas(cs[cs[c].mro[i]].attrs, name)
                /\ \A j \in 1..(i - 1) :
                      cs[c].mro[j] = Object \/ ~DictHas(cs[cs[c].mro[j]].attrs, name)
    IN DictGet(cs[cs[c].mro[at]].attrs, name)

HasMethod(cs, c, name) ==
    \E i \in 1..Len(cs[c].mro) :
        cs[c].mro[i] # Object /\ DictHas(cs[cs[c].mro[i]].methods, name)

GetMethod(cs, c, name) ==
    LET at == CHOOSE i \in 1..Len(cs[c].mro) :
                /\ cs[c].mro[i] # Object
                /\ DictHas(cs[cs[c].mro[i]].methods, name)
                /\ \A j \in 1..(i - 1) :
                      cs[c].mro[j] = Object \/ ~DictHas(cs[cs[c].mro[j]].methods, name)
    IN DictGet(cs[cs[c].mro[at]].methods, name)

(* class Form(metaclass=BaseFormMetaClass) *)
FormClass == NewClass(<<>>, "Form", <<>>, <<>>, <<>>)

-----------------------------------------------------------------------------
(* Form and the form classes of tests/core/test_forms.py *)

LongName == [i \in 1..21 |-> "A"]

NowYear == 2026

FormKinds ==
    LET c1 == <<FormClass>>
        c2 == Append(c1, NewClass(c1, "AudienceForm", <<1>>,
                    <<[k |-> "name", v |-> "AudienceForm.name"]>>,
                    <<[k |-> "clean_name", v |-> "AudienceForm.clean_name"]>>))
    IN Append(c2, NewClass(c2, "MatureAudienceForm", <<2>>,
                    <<[k |-> "age", v |-> "MatureAudienceForm.age"],
                      [k |-> "last_login", v |-> "MatureAudienceForm.last_login"]>>,
                    <<[k |-> "clean", v |-> "MatureAudienceForm.clean"]>>))

FormFields ==
    [fid \in {"AudienceForm.name", "MatureAudienceForm.age", "MatureAudienceForm.last_login"} |->
        CASE fid = "AudienceForm.name" ->
                NewField("StringField", "name", [NoArgs EXCEPT !.max_length = IntV(20)])
          [] fid = "MatureAudienceForm.age" ->
                NewField("IntField", "age", [NoArgs EXCEPT !.min_value = IntV(18)])
          [] fid = "MatureAudienceForm.last_login" ->
                NewField("DateTimeField", "last_login",
                         [NoArgs EXCEPT !.nullable = TRUE, !.force_conversion = TRUE])]

(* 'clean_%s' % field_name *)
CleanFuncName(name) ==
    CASE name = "name" -> "clean_name"
      [] name = "age" -> "clean_age"
      [] name = "last_login" -> "clean_last_login"
      [] OTHER -> "clean_"

GetAttrDefault(cs, fs, c, name) == FormFields[ClassAttr(cs, c, name)]._value

(* getattr(self, name): Field.__get__ of the descriptor the class resolves *)
GetAttr(cs, fs, c, name) == fs[ClassAttr(cs, c, name)]._value

(* the hooks of the test forms *)
CleanName(value) ==
    IF value.t # "str" THEN Raise("AttributeError", "startswith")
    ELSE IF Len(value.s) > 0 /\ value.s[1] = "A" THEN Ok(value)
         ELSE Raise("ValidationError", "Invalid name for audience")

MatureClean(cs, fs, c) ==
    LET last_login == GetAttr(cs, fs, c, "last_login")
        age == GetAttr(cs, fs, c, "age")
    IN IF last_login.t # "datetime" THEN Raise("AttributeError", "year")
       ELSE IF age.t # "int" THEN Raise("TypeError", "'>' not supported")
            ELSE IF (NowYear - last_login.n) > age.n
                 THEN Raise("ValidationError", "Invalid last login year")
                 ELSE Ok(NoneV)

CallFieldHook(impl, value) ==
    CASE impl = "AudienceForm.clean_name" -> CleanName(value)
      [] OTHER -> Ok(value)

CallFormHook(impl, cs, fs, c) ==
    CASE impl = "MatureAudienceForm.clean" -> MatureClean(cs, fs, c)
      [] OTHER -> Ok(NoneV)

-----------------------------------------------------------------------------
(* Form *)

(* Form.__init__; data is [given, d]: an argument left out is None *)
NewForm(c, data, raise_exception_on_error) ==
    [kind |-> c,
     _data |-> IF data.given /\ Len(data.d) > 0 THEN data.d ELSE <<>>,
     _cleaned_data |-> <<>>,
     _raise_exception_on_error |-> raise_exception_on_error,
     _errors |-> <<>>]

(* defaultdict(list): a lookup of a missing key inserts an empty list *)
DefaultGet(d, k) == IF DictHas(d, k) THEN d ELSE DictSet(d, k, <<>>)

DefaultAppend(d, k, x) == DictSet(d, k, Append(IF DictHas(d, k) THEN DictGet(d, k) ELSE <<>>, x))

RECURSIVE NumErrors(_)
NumErrors(d) == IF Len(d) = 0 THEN 0 ELSE Len(Head(d).v) + NumErrors(Tail(d))

DeclaredOf(i) == classes[forms[i].kind].declared_fields

IdleCtl == [pc |-> "idle", op |-> "", idx |-> 0, cleaned |-> NoneV]

NoCall == [op |-> "", how |-> "", val |-> FALSE, exc |-> NoExc, at |-> "",
           ran |-> FALSE, runs |-> 0, hooks |-> 0, nerr |-> 0, cached |-> FALSE]

NewHist ==
    [calls |-> 0, runs |-> 0, hooks |-> 0, visited |-> {}, hooked |-> {},
     formhook |-> "", prev |-> NoCall, last |-> NoCall]

(* a read of a property between two calls *)
Looked(h, op) == [h EXCEPT !.prev = NoCall, !.last = [NoCall EXCEPT !.op = op]]

(* what a finished call leaves in the history of instance i; ran tells     *)
(* whether the call went through _clean_fields                             *)
Completed(h, f, op, how, val, exc, at) ==
    [h EXCEPT !.prev = h.last,
              !.last = [op |-> op, how |-> how, val |-> val, exc |-> exc, at |-> at,
                        ran |-> FALSE,
                        runs |-> h.runs, hooks |-> h.hooks, nerr |-> NumErrors(f._errors),
                        cached |-> Len(f._cleaned_data) > 0 \/ Len(f._errors) > 0]]

PropagatesNever(f) == FALSE

(* Form._clean_fields, the except clause: propagate or record *)
Propagates(f) == f._raise_exception_on_error

RecordErrorLost(f, key, ex) == f

RecordError(f, key, ex) == [f EXCEPT !._errors = DefaultAppend(@, key, ex)]

(* Form.is_valid: the return statement *)
IsValidResult(f) == IF Len(f._errors) > 0 THEN FALSE ELSE TRUE

CacheEmptyOfData(f) == Len(f._cleaned_data) = 0

(* Form.is_valid: the test that decides whether full_clean runs *)
CacheEmpty(f) == Len(f._cleaned_data) = 0 /\ Len(f._errors) = 0

(* the next iteration of the loop over declared_fields.items() *)
NextField(i) ==
    IF ctl[i].idx < Len(DeclaredOf(i))
    THEN [ctl[i] EXCEPT !.pc = "set", !.idx = @ + 1, !.cleaned = NoneV]
    ELSE [ctl[i] EXCEPT !.pc = "clean", !.idx = 0, !.cleaned = NoneV]

(* an exception inside the try of _clean_fields, at field key *)
FieldFailed(i, h, key, r) ==
    /\ UNCHANGED <<classes, fields>>
    /\ IF Propagates(forms[i])
       THEN /\ forms' = forms
            /\ ctl' = [ctl EXCEPT ![i] = IdleCtl]
            /\ hist' = [hist EXCEPT ![i] =
                            [Completed(h, forms[i], ctl[i].op, "raise", FALSE, Exc(r), key)
                                EXCEPT !.last.ran = TRUE]]
       ELSE /\ forms' = [forms EXCEPT ![i] = RecordError(@, key, Exc(r))]
            /\ ctl' = [ctl EXCEPT ![i] = NextField(i)]
            /\ hist' = [hist EXCEPT ![i] = h]

NoDataWhenRaising(f) == Len(f._data) = 0 /\ f._raise_exception_on_error

(* Form.full_clean: `if not self._data` *)
NoData(f) == Len(f._data) = 0

(* Form.full_clean up to the call of _clean_fields *)
FullCleanBegin(i, op) ==
    /\ UNCHANGED <<classes, fields, forms>>
    /\ IF NoData(forms[i])
       THEN /\ ctl' = ctl
            /\ hist' = [hist EXCEPT ![i] =
                            Completed([@ EXCEPT !.calls = @ + 1], forms[i], op, "raise", FALSE,
                                      [type |-> "ValueError", msg |-> "No data was provided for",
                                       arg |-> classes[forms[i].kind].name], "")]
       ELSE /\ ctl' = [ctl EXCEPT ![i] =
                            [pc |-> IF Len(DeclaredOf(i)) > 0 THEN "set" ELSE "clean",
                             op |-> op, idx |-> IF Len(DeclaredOf(i)) > 0 THEN 1 ELSE 0,
                             cleaned |-> NoneV]]
            /\ hist' = [hist EXCEPT ![i] =
                            [@ EXCEPT !.calls = @ + 1, !.runs = @ + 1, !.visited = {},
                                      !.hooked = {}, !.formhook = ""]]

MaxCalls == 2

(* a call of form.is_valid() *)
IsValid(i) ==
    /\ ctl[i].pc = "idle"
    /\ hist[i].calls < MaxCalls
    /\ IF CacheEmpty(forms[i])
       THEN FullCleanBegin(i, "is_valid")
       ELSE /\ UNCHANGED <<classes, fields, forms, ctl>>
            /\ hist' = [hist EXCEPT ![i] =
                            Completed([@ EXCEPT !.calls = @ + 1], forms[i], "is_valid", "return",
                                      IsValidResult(forms[i]), NoExc, "")]

(* a call of form.full_clean() *)
FullClean(i) ==
    /\ ctl[i].pc = "idle"
    /\ hist[i].calls < MaxCalls
    /\ FullCleanBegin(i, "full_clean")

(* _clean_fields: setattr(self, key, self._data[key]) *)
SetRaw(i) ==
    /\ ctl[i].pc = "set"
    /\ LET key == DeclaredOf(i)[ctl[i].idx].k
           fid == ClassAttr(classes, forms[i].kind, key)
           h == [hist[i] EXCEPT !.visited = @ \cup {key}]
           r == IF DictHas(forms[i]._data, key)
                THEN FieldSet(fields[fid], DictGet(forms[i]._data, key))
                ELSE RaiseWith("KeyError", "", key)
       IN IF r.ok
          THEN /\ fields' = [fields EXCEPT ![fid]._value = r.v]
               /\ ctl' = [ctl EXCEPT ![i].pc = "hook"]
               /\ hist' = [hist EXCEPT ![i] = h]
               /\ UNCHANGED <<classes, forms>>
          ELSE FieldFailed(i, h, key, r)

(* _clean_fields: self._clean_field(key, getattr(self, key)) *)
CleanField(i) ==
    /\ ctl[i].pc = "hook"
    /\ LET key == DeclaredOf(i)[ctl[i].idx].k
           value == GetAttr(classes, fields, forms[i].kind, key)
           found == HasMethod(classes, forms[i].kind, CleanFuncName(key))
           h == IF found
                THEN [hist[i] EXCEPT !.hooks = @ + 1, !.hooked = @ \cup {key}]
                ELSE hist[i]
           r == IF found
                THEN CallFieldHook(GetMethod(classes, forms[i].kind, CleanFuncName(key)), value)
                ELSE Ok(value)
       IN IF r.ok
          THEN /\ ctl' = [ctl EXCEPT ![i].pc = "store", ![i].cleaned = r.v]
               /\ hist' = [hist EXCEPT ![i] = h]
               /\ UNCHANGED <<classes, fields, forms>>
          ELSE FieldFailed(i, h, key, r)

(* what _clean_fields puts into _cleaned_data: the loop variable `value` *)
CleanedEntry(fs, declared, cleaned) == FieldRef(declared)

(* _clean_fields: setattr(self, key, cleaned_field); _cleaned_data[key] = value *)
StoreCleaned(i) ==
    /\ ctl[i].pc = "store"
    /\ LET item == DeclaredOf(i)[ctl[i].idx]
           fid == ClassAttr(classes, forms[i].kind, item.k)
           r == FieldSet(fields[fid], ctl[i].cleaned)
       IN IF r.ok
          THEN /\ fields' = [fields EXCEPT ![fid]._value = r.v]
               /\ forms' = [forms EXCEPT ![i]._cleaned_data =
                                DictSet(@, item.k, CleanedEntry(fields', item.v, r.v))]
               /\ ctl' = [ctl EXCEPT ![i] = NextField(i)]
               /\ UNCHANGED <<classes, hist>>
          ELSE FieldFailed(i, hist[i], item.k, r)

FormHookDespiteErrors(cs, f) == HasMethod(cs, f.kind, "clean")

(* full_clean: whether the whole-form hook is called *)
FormHookDue(cs, f) == HasMethod(cs, f.kind, "clean") /\ Len(f._errors) = 0

(* full_clean after _clean_fields, and the return of is_valid *)
CleanForm(i) ==
    /\ ctl[i].pc = "clean"
    /\ LET f == forms[i]
           due == FormHookDue(classes, f)
           r == IF due
                THEN CallFormHook(GetMethod(classes, f.kind, "clean"), classes, fields, f.kind)
                ELSE Ok(NoneV)
           h == IF due
                THEN [hist[i] EXCEPT !.hooks = @ + 1,
                                     !.formhook = IF r.ok THEN "passed" ELSE "failed"]
                ELSE hist[i]
           g == IF r.ok \/ Propagates(f) THEN f
                ELSE RecordError(f, classes[f.kind].name, Exc(r))
       IN /\ forms' = [forms EXCEPT ![i] = g]
          /\ ctl' = [ctl EXCEPT ![i] = IdleCtl]
          /\ hist' = [hist EXCEPT ![i] =
                        [(IF ~r.ok /\ Propagates(f)
                          THEN Completed(h, g, ctl[i].op, "raise", FALSE, Exc(r), "")
                          ELSE Completed(h, g, ctl[i].op, "return",
                                         ctl[i].op = "is_valid" /\ IsValidResult(g), NoExc, ""))
                            EXCEPT !.last.ran = TRUE]]
          /\ UNCHANGED <<classes, fields>>

(* the keys a caller looks up in form.errors and form.cleaned_data *)
LookupKeys(i) ==
    {classes[forms[i].kind].name}
        \cup (IF Len(DeclaredOf(i)) > 0 THEN {DeclaredOf(i)[Len(DeclaredOf(i))].k} ELSE {})

(* form.errors[k] *)
ReadErrors(i, k) ==
    /\ ctl[i].pc = "idle"
    /\ forms' = [forms EXCEPT ![i]._errors = DefaultGet(@, k)]
    /\ hist' = [hist EXCEPT ![i] = Looked(@, "errors")]
    /\ UNCHANGED <<classes, fields, ctl>>

(* form.cleaned_data.get(k) *)
ReadCleanedData(i, k) ==
    /\ ctl[i].pc = "idle"
    /\ hist' = [hist EXCEPT ![i] = Looked(@, "cleaned_data")]
    /\ UNCHANGED <<classes, fields, forms, ctl>>

-----------------------------------------------------------------------------
(* the records a form is constructed with *)

Absent == [t |-> "absent", n |-> 0, s |-> <<>>]

Chars18 == <<"1", "8">>

NameChoices == {Absent, StrV(<<"A", "a", "r", "o", "n">>), StrV(<<"B", "o", "b">>), StrV(LongName)}

AgeChoices == {Absent, NoneV, IntV(12), IntV(18), IntV(30), StrV(Chars18)}

LoginChoices == {Absent, NoneV, StrV(<<"2", "0", "0", "0">>), StrV(<<"2", "0", "2", "0">>), StrV(<<"a">>)}

Item(k, v) == IF v.t = "absent" THEN <<>> ELSE <<[k |-> k, v |-> v]>>

Records ==
    {Item("name", n) \o Item("age", a) \o Item("last_login", l) :
        n \in NameChoices, a \in AgeChoices, l \in LoginChoices}

DataFor(c) ==
    IF Len(FormKinds[c].declared_fields) = 3 THEN Records
    ELSE {Item("name", n) : n \in NameChoices}

DataArgs(c) == {[given |-> TRUE, d |-> d] : d \in DataFor(c)} \cup {[given |-> FALSE, d |-> <<>>]}

Instances == {1}

Init ==
    /\ classes = FormKinds
    /\ fields = FormFields
    /\ forms \in [Instances ->
                    UNION {{NewForm(c, d, r) : d \in DataArgs(c), r \in BOOLEAN} :
                            c \in 1..Len(FormKinds)}]
    /\ ctl = [i \in Instances |-> IdleCtl]
    /\ hist = [i \in Instances |-> NewHist]

CallIsValid == \E i \in DOMAIN forms : IsValid(i)

CallFullClean == \E i \in DOMAIN forms : FullClean(i)

StepSetRaw == \E i \in DOMAIN forms : SetRaw(i)

StepCleanField == \E i \in DOMAIN forms : CleanField(i)

StepStoreCleaned == \E i \in DOMAIN forms : StoreCleaned(i)

StepCleanForm == \E i \in DOMAIN forms : CleanForm(i)

LookupErrors == \E i \in DOMAIN forms : \E k \in LookupKeys(i) : ReadErrors(i, k)

LookupCleanedData == \E i \in DOMAIN forms : \E k \in LookupKeys(i) : ReadCleanedData(i, k)

Next ==
    \/ CallIsValid
    \/ CallFullClean
    \/ StepSetRaw
    \/ StepCleanField
    \/ StepStoreCleaned
    \/ StepCleanForm
    \/ LookupErrors
    \/ LookupCleanedData

Spec == Init /\ [][Next]_vars

-----------------------------------------------------------------------------
(* properties of the cleaning pipeline *)

Idle(i) == ctl[i].pc = "idle"

Names(i) == DictKeys(DeclaredOf(i))

KindName(i) == classes[forms[i].kind].name

InCleaned(i, n) == DictHas(forms[i]._cleaned_data, n)

HasErrors(i, n) == DictHas(forms[i]._errors, n) /\ Len(DictGet(forms[i]._errors, n)) > 0

(* the declared names up to and including key, in declaration order *)
UpTo(i, key) ==
    {DeclaredOf(i)[j].k : j \in {m \in 1..Len(DeclaredOf(i)) :
                                    \E e \in m..Len(DeclaredOf(i)) : DeclaredOf(i)[e].k = key}}

(* C1: with raise_exception_on_error false, once full_clean has returned  *)
(* every declared field is in cleaned_data or has errors, never both and   *)
(* never neither.                                                          *)
PartitionInvariant ==
    \A i \in DOMAIN forms :
        (Idle(i) /\ hist[i].runs >= 1 /\ ~forms[i]._raise_exception_on_error)
            => \A n \in Names(i) : InCleaned(i, n) # HasErrors(i, n)

PartitionWitness ==
    \E i \in DOMAIN forms :
        /\ Idle(i) /\ hist[i].runs = 1 /\ ~forms[i]._raise_exception_on_error
        /\ HasErrors(i, "name") /\ HasErrors(i, "age") /\ InCleaned(i, "last_login")

TwoIsValid(i) ==
    /\ hist[i].last.op = "is_valid" /\ hist[i].last.how = "return"
    /\ hist[i].prev.op = "is_valid" /\ hist[i].prev.how = "return"

(* C2 as stated: two is_valid() calls in a row return the same boolean,    *)
(* and the second neither runs the field loop or a hook again nor changes  *)
(* errors.                                                                 *)
IsValidNeverReruns ==
    \A i \in DOMAIN forms :
        TwoIsValid(i) =>
            /\ hist[i].last.val = hist[i].prev.val
            /\ hist[i].last.nerr = hist[i].prev.nerr
            /\ hist[i].last.runs = hist[i].prev.runs
            /\ hist[i].last.hooks = hist[i].prev.hooks

(* C2 amended: the same, the second call being memoized when the form      *)
(* declares a field or the first call left cleaned_data or errors          *)
(* non-empty.                                                              *)
IsValidMemoized ==
    \A i \in DOMAIN forms :
        TwoIsValid(i) =>
            /\ hist[i].last.val = hist[i].prev.val
            /\ hist[i].last.nerr = hist[i].prev.nerr
            /\ (Len(DeclaredOf(i)) > 0 \/ hist[i].prev.cached) =>
                    /\ hist[i].last.runs = hist[i].prev.runs
                    /\ hist[i].last.hooks = hist[i].prev.hooks

IsValidMemoizedWitness ==
    \E i \in DOMAIN forms :
        /\ TwoIsValid(i) /\ Len(DeclaredOf(i)) > 0
        /\ hist[i].runs = 1 /\ hist[i].prev.nerr = 2 /\ ~hist[i].last.val

IsUsageError(i, call) ==
    /\ call.how = "raise"
    /\ call.exc = [type |-> "ValueError", msg |-> "No data was provided for", arg |-> KindName(i)]

(* C4: on a form without data full_clean(), and is_valid() when it runs    *)
(* full_clean(), raise the usage error naming the form kind whatever       *)
(* raise_exception_on_error is; no field is set, no hook called, nothing   *)
(* recorded in errors or cleaned_data.                                     *)
NoDataIsUsageError ==
    \A i \in DOMAIN forms :
        Len(forms[i]._data) = 0 =>
            /\ Idle(i) /\ hist[i].runs = 0 /\ hist[i].hooks = 0 /\ hist[i].visited = {}
            /\ forms[i]._cleaned_data = <<>> /\ NumErrors(forms[i]._errors) = 0
            /\ hist[i].last.op = "full_clean" => IsUsageError(i, hist[i].last)
            /\ (hist[i].last.op = "is_valid" /\ forms[i]._errors = <<>>) =>
                    IsUsageError(i, hist[i].last)
            /\ hist[i].last.how = "raise" => hist[i].last.nerr = 0
            /\ \A fid \in DOMAIN fields : fields[fid]._value = FormFields[fid]._value

NoDataWitness ==
    \E i \in DOMAIN forms :
        /\ Len(forms[i]._data) = 0 /\ ~forms[i]._raise_exception_on_error
        /\ Len(DeclaredOf(i)) > 0
        /\ hist[i].last.op = "is_valid" /\ IsUsageError(i, hist[i].last)
        /\ hist[i].calls = 2

(* C5: every entry of cleaned_data is the final value of its field.        *)
CleanedDataHoldsValues ==
    \A i \in DOMAIN forms :
        Idle(i) =>
            \A n \in DictKeys(forms[i]._cleaned_data) :
                DictGet(forms[i]._cleaned_data, n) = GetAttr(classes, fields, forms[i].kind, n)

(* C7: with raise_exception_on_error true the first failure in declaration *)
(* order leaves full_clean at once: the fields before it passed, no field  *)
(* after it is set or hooked, the whole-form hook is not called, and no    *)
(* failure, of a field or of the whole-form hook, is recorded in errors.   *)
RaisePropagatesFirst ==
    \A i \in DOMAIN forms :
        forms[i]._raise_exception_on_error =>
            /\ NumErrors(forms[i]._errors) = 0
            /\ hist[i].formhook = "failed" =>
                    /\ Idle(i) /\ hist[i].visited = Names(i)
                    /\ hist[i].last.ran => hist[i].last.how = "raise" /\ hist[i].last.at = ""
            /\ (Idle(i) /\ hist[i].last.how = "raise" /\ hist[i].last.at # "") =>
                    /\ hist[i].visited = UpTo(i, hist[i].last.at)
                    /\ hist[i].hooked \subseteq hist[i].visited
                    /\ hist[i].formhook = ""
                    /\ \A n \in hist[i].visited \ {hist[i].last.at} : InCleaned(i, n)

RaisePropagatesWitness ==
    \E i \in DOMAIN forms :
        /\ forms[i]._raise_exception_on_error
        /\ hist[i].last.how = "raise" /\ hist[i].last.at = "age"
        /\ hist[i].last.exc.msg = "smaller than min value"
        /\ InCleaned(i, "name") /\ Len(DeclaredOf(i)) = 3

(* C8: the whole-form hook is called only when every declared field has    *)
(* been processed and none has an error; its failure, with                 *)
(* raise_exception_on_error false, is recorded under the name of the form  *)
(* kind and under no field name.                                           *)
FormHookLast ==
    \A i \in DOMAIN forms :
        /\ ctl[i].pc \in {"set", "hook", "store", "clean"} => hist[i].formhook = ""
        /\ hist[i].formhook # "" =>
                /\ hist[i].visited = Names(i)
                /\ \A n \in Names(i) : ~HasErrors(i, n) /\ InCleaned(i, n)
        /\ (hist[i].formhook = "failed" /\ ~forms[i]._raise_exception_on_error) =>
                /\ HasErrors(i, KindName(i))
                /\ Len(DictGet(forms[i]._errors, KindName(i))) = 1
        /\ (hist[i].formhook # "failed" /\ hist[i].runs <= 1) => ~HasErrors(i, KindName(i))

FormHookWitness ==
    \E i \in DOMAIN forms :
        /\ hist[i].formhook = "failed" /\ ~forms[i]._raise_exception_on_error
        /\ Len(DeclaredOf(i)) = 3 /\ Idle(i)
        /\ DictGet(forms[i]._errors, KindName(i))[1].msg = "Invalid last login year"

(* C10: reading errors adds no key: every key of errors is a name that     *)
(* failed.                                                                 *)
ErrorsKeysFailed ==
    \A i \in DOMAIN forms :
        \A k \in DictKeys(forms[i]._errors) : Len(DictGet(forms[i]._errors, k)) > 0

(* whether field n of the record of instance i passes conversion,          *)
(* validation and its clean_<field> hook                                   *)
FieldPasses(i, n) ==
    /\ DictHas(forms[i]._data, n)
    /\ LET f == fields[ClassAttr(classes, forms[i].kind, n)]
           r == FieldSet(f, DictGet(forms[i]._data, n))
           hooked == IF r.ok /\ HasMethod(classes, forms[i].kind, CleanFuncName(n))
                     THEN CallFieldHook(GetMethod(classes, forms[i].kind, CleanFuncName(n)), r.v)
                     ELSE r
       IN r.ok /\ hooked.ok /\ FieldSet(f, hooked.v).ok

(* C11: over is_valid() calls alone, one that raised included, is_valid()  *)
(* returns True only if every declared field of the record passes and the  *)
(* whole-form hook did not fail.                                           *)
ValidOnlyIfAllPass ==
    \A i \in DOMAIN forms :
        (/\ hist[i].last.op = "is_valid" /\ hist[i].last.how = "return" /\ hist[i].last.val
         /\ \/ hist[i].prev.op = ""
            \/ hist[i].prev.op = "is_valid" /\ hist[i].calls = 2) =>
            /\ \A n \in Names(i) : FieldPasses(i, n)
            /\ hist[i].formhook # "failed"

-----------------------------------------------------------------------------
(* two forms of one kind cleaned at the same time: the class, and so every *)
(* Field object and its _value, is shared; the steps of the two cleans     *)
(* interleave between the statements of _clean_fields                      *)

RaceKind == Len(FormKinds)

RaceRecords ==
    {Item("name", n) \o Item("age", a) \o Item("last_login", l) :
        n \in {StrV(<<"A", "a", "r", "o", "n">>), StrV(<<"B", "o", "b">>)},
        a \in {IntV(18), IntV(30)},
        l \in {StrV(<<"2", "0", "0", "0">>), StrV(<<"2", "0", "2", "0">>)}}

InitRace ==
    /\ classes = FormKinds
    /\ fields = FormFields
    /\ forms \in [{1, 2} -> {NewForm(RaceKind, [given |-> TRUE, d |-> d], FALSE) :
                                d \in RaceRecords}]
    /\ ctl = [i \in {1, 2} |-> IdleCtl]
    /\ hist = [i \in {1, 2} |-> NewHist]

NextRace ==
    \/ CallIsValid
    \/ StepSetRaw
    \/ StepCleanField
    \/ StepStoreCleaned
    \/ StepCleanForm

SpecRace == InitRace /\ [][NextRace]_vars

(* the value instance j writes into the field of key from its own record *)
OwnValue(j, key) ==
    FieldSet(fields[ClassAttr(classes, forms[j].kind, key)], DictGet(forms[j]._data, key)).v

(* C12: the forms of one kind share their Field objects, and the value a   *)
(* form reads back from a field is the value stored there last, written    *)
(* from the record of either form.                                         *)
ReadBackIsLastWritten ==
    [][\A i \in DOMAIN forms :
          (ctl[i].pc = "hook" /\ ctl'[i].pc = "store") =>
              LET key == DeclaredOf(i)[ctl[i].idx].k
                  fid == ClassAttr(classes, forms[i].kind, key)
              IN /\ ctl'[i].cleaned = fields[fid]._value
                 /\ \E j \in DOMAIN forms :
                       /\ ClassAttr(classes, forms[j].kind, key) = fid
                       /\ hist[j].runs > 0
                       /\ OwnValue(j, key) = ctl'[i].cleaned]_vars

(* a form holds, read back for its own age, the age of the other record *)
RaceWitness ==
    \E i, j \in DOMAIN forms :
        /\ i # j
        /\ ctl[i].pc = "store" /\ DeclaredOf(i)[ctl[i].idx].k = "age"
        /\ ctl[i].cleaned # OwnValue(i, "age")
        /\ ctl[i].cleaned = OwnValue(j, "age")
        /\ ClassAttr(classes, forms[i].kind, "age") = ClassAttr(classes, forms[j].kind, "age")

-----------------------------------------------------------------------------
(* class creation: form classes are defined one after another, each from   *)
(* classes defined before it                                               *)

MaxClasses == 5

MaxBases == 2

ClassNames == <<"Form", "K2", "K3", "K4", "K5", "K6", "K7">>

MetaNames == <<"x", "y">>

MetaFieldId(c, n) ==
    <<[x |-> "Form.x", y |-> "Form.y"], [x |-> "K2.x", y |-> "K2.y"],
      [x |-> "K3.x", y |-> "K3.y"], [x |-> "K4.x", y |-> "K4.y"],
      [x |-> "K5.x", y |-> "K5.y"], [x |-> "K6.x", y |-> "K6.y"],
      [x |-> "K7.x", y |-> "K7.y"]>>[c][n]

(* the Field attributes of a class body that declares the names in own *)
BodyAttrs(c, own) ==
    LET picked == SelectSeq(MetaNames, LAMBDA n : n \in own)
    IN [j \in 1..Len(picked) |-> [k |-> picked[j], v |-> MetaFieldId(c, picked[j])]]

BaseLists(n) ==
    {b \in UNION {[1..m -> 1..n] : m \in 1..MaxBases} :
        \A p, q \in 1..Len(b) : p # q => b[p] # b[q]}

DefineClass ==
    /\ Len(classes) < MaxClasses
    /\ \E bases \in BaseLists(Len(classes)), own \in SUBSET Elems(MetaNames) :
          /\ MroOk(Linearize(classes, Len(classes) + 1, bases))
          /\ classes' = Append(classes,
                            NewClass(classes, ClassNames[Len(classes) + 1], bases,
                                     BodyAttrs(Len(classes) + 1, own), <<>>))
    /\ UNCHANGED <<fields, forms, ctl, hist>>

InitMeta ==
    /\ classes = <<FormClass>>
    /\ fields = <<>>
    /\ forms = <<>>
    /\ ctl = <<>>
    /\ hist = <<>>

NextMeta == DefineClass

SpecMeta == InitMeta /\ [][NextMeta]_vars

(* the names the classes of the __mro__ of c declare *)
AncestorNames(c) ==
    UNION {DictKeys(classes[classes[c].mro[j]].attrs) :
            j \in {m \in 1..Len(classes[c].mro) : classes[c].mro[m] # Object}}

(* C3: declared_fields of every class holds every name an ancestor (or the *)
(* class) declares, mapped to the field of the last class, most-base       *)
(* first, that declares the name in its own body.                          *)
DeclaredFieldsOverlayOwn ==
    \A c \in 1..Len(classes) :
        /\ DictKeys(classes[c].declared_fields) = AncestorNames(c)
        /\ \A n \in AncestorNames(c) :
              DictGet(classes[c].declared_fields, n) = ClassAttr(classes, c, n)

-----------------------------------------------------------------------------
(* one field, set again and again *)

MaxSets == 2

BoundValue(kind, lo) ==
    CASE kind = "IntField" -> IF lo THEN IntV(18) ELSE IntV(60)
      [] kind = "FloatField" -> IF lo THEN FloatV(36) ELSE FloatV(120)
      [] kind = "StringField" -> IF lo THEN IntV(1) ELSE IntV(5)
      [] kind = "DateTimeField" -> IF lo THEN DateTimeV(2000) ELSE DateTimeV(2020)

FieldArgs(kind) ==
    {[NoArgs EXCEPT !.nullable = nu, !.force_conversion = fc, !.custom_validators = cv,
                    !.min_value = IF FieldType(kind) \in {"int", "float"} THEN lo ELSE NoneV,
                    !.max_value = IF FieldType(kind) \in {"int", "float"} THEN hi ELSE NoneV,
                    !.min_length = IF kind = "StringField" THEN lo ELSE NoneV,
                    !.max_length = IF kind = "StringField" THEN hi ELSE NoneV,
                    !.min_date = IF kind = "DateTimeField" THEN lo ELSE NoneV,
                    !.max_date = IF kind = "DateTimeField" THEN hi ELSE NoneV] :
        nu \in BOOLEAN, fc \in BOOLEAN, cv \in {<<>>, <<"is_even">>},
        lo \in {NoneV, BoundValue(kind, TRUE)}, hi \in {NoneV, BoundValue(kind, FALSE)}}

FieldValues ==
    {NoneV, IntV(17), IntV(18), IntV(60), IntV(61),
     FloatV(35), FloatV(36), FloatV(120), FloatV(121),
     StrV(<<>>), StrV(Chars18), StrV(<<"a", "b", "c", "d", "e", "f">>), StrV(<<"2", "0", "1", "0">>),
     DateTimeV(1999), DateTimeV(2010), DateTimeV(2021)}

InitField ==
    /\ classes = <<>>
    /\ forms = <<>>
    /\ ctl = <<>>
    /\ \E kind \in FieldKinds : \E args \in FieldArgs(kind) :
          /\ fields = [fid \in {"f"} |-> NewField(kind, "f", args)]
          /\ hist = [args |-> args, value |-> NoneV, out |-> Ok(NoneV), sets |-> 0]

(* obj.f = value *)
SetField ==
    /\ hist.sets < MaxSets
    /\ \E value \in FieldValues :
          LET r == FieldSet(fields["f"], value)
          IN /\ fields' = IF r.ok THEN [fields EXCEPT !["f"]._value = r.v] ELSE fields
             /\ hist' = [hist EXCEPT !.value = value, !.out = r, !.sets = @ + 1]
    /\ UNCHANGED <<classes, forms, ctl>>

NextSetField == SetField

SpecField == InitField /\ [][NextSetField]_vars

(* C6: None is stored by a nullable field and refused by any other, and    *)
(* the type-mismatch failure is only for a value that is not None.         *)
NoneFollowsNullable ==
    hist.sets > 0 =>
        /\ hist.value.t = "none" =>
              /\ hist.out.ok = hist.args.nullable
              /\ hist.out.ok => fields["f"]._value = NoneV
        /\ hist.out.msg = "value is not a valid type" => hist.value.t # "none"

WithinBounds(args, v) ==
    /\ args.min_value.t = "none" \/ v.n >= args.min_value.n
    /\ args.max_value.t = "none" \/ v.n <= args.max_value.n

(* C9: an IntField or a FloatField accepts a value of its type iff the     *)
(* value is within min_value and max_value, bounds included, and refuses   *)
(* it with the min/max message.                                            *)
NumericBoundsExact ==
    (/\ hist.sets > 0
     /\ fields["f"].kind \in {"IntField", "FloatField"}
     /\ hist.args.custom_validators = <<>>
     /\ IsInstance(hist.value, fields["f"].kind)) =>
        /\ hist.out.ok = WithinBounds(hist.args, hist.value)
        /\ ~hist.out.ok => hist.out.msg \in {"smaller than min value", "greater than max value"}

====
